---------------------------- MODULE Spec2Model ----------------------------
(***************************************************************************)
(* Model of the document-to-text pipeline of Formetrix_AI:                 *)
(*   OCRService (init / processImage / processPDF / cleanup),              *)
(*   the upload handler and the formatting run of the App component.       *)
(*                                                                         *)
(* Text is a sequence of one-character strings, so that trim, join, split  *)
(* and length are computed as the code computes them.                      *)
(*                                                                         *)
(* An action is the code that runs between two suspension points that wait *)
(* for an external event (a worker message, a file read, a render, a timer,*)
(* a user event).  Continuations that are chained by already-settled       *)
(* promises (a return or a throw crossing an async frame) run in the same  *)
(* microtask checkpoint and are part of the same action.                   *)
(***************************************************************************)
EXTENDS Integers, Sequences, FiniteSets, TLC

VARIABLES
    worker,      \* OCRService.worker: 0 is null, otherwise the engine's number
    engine,      \* state of every engine createWorker was asked for, by number
    logger,      \* the onProgress each engine's logger closure captured
    documents,   \* App state `documents`
    progress,    \* App state `progress`, a rational <<numerator, denominator>>
    nextId,      \* number of document ids generated so far
    delivered,   \* the values each progress callback was called with, in order
    up,          \* the invocations of handleFileUpload
    bg,          \* the background OCRService.init() of the mount effect
    mounted,     \* the component is mounted (its unmount handler has not run)
    cleanupCalls,\* number of calls of OCRService.cleanup
    fmt,         \* the invocations of processText
    processing,  \* App state `processing`
    resetTimers  \* pending 2-second timers of successful processText runs

vars == <<worker, engine, logger, documents, progress, nextId, delivered,
          up, bg, mounted, cleanupCalls, fmt, processing, resetTimers>>

\* What the steps of an upload leave alone
rest == <<bg, mounted, cleanupCalls, fmt, processing, resetTimers>>

---------------------------------------------------------------------------
(* Bounds of the model *)

MaxUploads == 2
MaxPages == 2
MaxRuns == 2
MaxText == 4
MaxCleanups == 3

(* Program constants *)

NativeTextThreshold == 20

---------------------------------------------------------------------------
(* Text *)

IsSpace(c) == c \in {" ", "\n", "\t", "\r"}

RECURSIVE TrimStart(_)
TrimStart(s) ==
    IF s = <<>> THEN <<>>
    ELSE IF IsSpace(Head(s)) THEN TrimStart(Tail(s)) ELSE s

RECURSIVE TrimEnd(_)
TrimEnd(s) ==
    IF s = <<>> THEN <<>>
    ELSE IF IsSpace(s[Len(s)]) THEN TrimEnd(SubSeq(s, 1, Len(s) - 1)) ELSE s

Trim(s) == TrimEnd(TrimStart(s))

RECURSIVE Join(_, _)
Join(parts, sep) ==
    IF parts = <<>> THEN <<>>
    ELSE IF Len(parts) = 1 THEN parts[1]
    ELSE parts[1] \o sep \o Join(Tail(parts), sep)

LowerChar(c) ==
    CASE c = "P" -> "p"
      [] c = "D" -> "d"
      [] c = "F" -> "f"
      [] c = "N" -> "n"
      [] c = "G" -> "g"
      [] c = "T" -> "t"
      [] c = "X" -> "x"
      [] OTHER -> c

ToLowerCase(s) == [i \in 1..Len(s) |-> LowerChar(s[i])]

\* The last piece of s.split('.')
RECURSIVE LastPiece(_)
LastPiece(s) ==
    IF s = <<>> THEN <<>>
    ELSE IF s[Len(s)] = "." THEN <<>>
    ELSE LastPiece(SubSeq(s, 1, Len(s) - 1)) \o <<s[Len(s)]>>

StartsWith(s, p) == Len(s) >= Len(p) /\ SubSeq(s, 1, Len(p)) = p

X(n) == [i \in 1..n |-> "x"]


---------------------------------------------------------------------------
(* Files.  A file is its name, its declared MIME type, what file.text()    *)
(* reads from it, and what pdf.js makes of it: whether getDocument accepts *)
(* it and, per page, the text items of the native text layer.              *)

MimePdf   == <<"a","p","p","l","i","c","a","t","i","o","n","/","p","d","f">>
MimePng   == <<"i","m","a","g","e","/","p","n","g">>
MimeImage == <<"i","m","a","g","e","/">>
MimeText  == <<"t","e","x","t","/","p","l","a","i","n">>
MimeZip   == <<"a","p","p","l","i","c","a","t","i","o","n","/","z","i","p">>
MimeNone  == <<>>

ExtPdf == <<"p","d","f">>
ExtTxt == <<"t","x","t">>
ImageExtensions ==
    { <<"j","p","g">>, <<"j","p","e","g">>, <<"p","n","g">>,
      <<"t","i","f","f">>, <<"b","m","p">>, <<"g","i","f">> }

NamePdf      == <<"a",".","p","d","f">>
NamePdfUpper == <<"a",".","P","D","F">>
NamePng      == <<"a",".","p","n","g">>
NameGif      == <<"b",".","g","i","f">>
NameTxt      == <<"a",".","t","x","t">>
NameTxtUpper == <<"a",".","T","X","T">>
NameExe      == <<"a",".","e","x","e">>
NameBare     == <<"p","d","f">>
NameDot      == <<"a",".">>
NameTwoDots  == <<"a",".","p","d","f",".","t","x","t">>

\* Native text layers of a page: the items of getTextContent()
PageNone    == <<>>
PageStray   == << X(NativeTextThreshold) >>
PageText    == << X(NativeTextThreshold + 1) >>
PageTwo     == << X(10), X(10) >>
PagePadded  == << <<" ">>, X(NativeTextThreshold - 1) >>

PageKinds == {PageNone, PageStray, PageText, PageTwo, PagePadded}

MkFile(name, type, text, parses, pages) ==
    [name |-> name, type |-> type, text |-> text, parses |-> parses, pages |-> pages]

\* What a recognition or a text read can give
TextA == <<"a">>
TextB == <<" ", "b", "\n">>
Blank == <<" ", "\n">>
Empty == <<>>
RecognizedTexts == {TextA, TextB, Blank, Empty}

---------------------------------------------------------------------------
(* Progress values are rationals <<n, d>> with d > 0 *)

Zero == <<0, 1>>
Pct(n) == <<n, 1>>
Leq(a, b) == a[1] * b[2] <= b[1] * a[2]
Same(a, b) == a[1] * b[2] = b[1] * a[2]

\* Fractions the engine's logger reports while recognizing
EngineFractions == << <<1, 2>>, <<1, 1>> >>

NoCb == <<>>

---------------------------------------------------------------------------
(* The shared state as one value, so that the code between two suspension  *)
(* points, which may run through several functions, is one function of it. *)

G == [worker |-> worker, engine |-> engine, logger |-> logger,
      documents |-> documents, progress |-> progress, nextId |-> nextId,
      delivered |-> delivered]

IdleTask(u, files) ==
    [id |-> u, pc |-> "idle", files |-> files, k |-> 0, docId |-> 0,
     via |-> "none", eng |-> 0, i |-> 0, totalPages |-> 0, textPages |-> <<>>,
     hasTextContent |-> FALSE, ticks |-> 0, invoked |-> {}, ocr |-> <<>>,
     faults |-> {}, native |-> {}, rendered |-> {}, out |-> <<>>]

\* (prog) => setProgress(prog), the callback handleFileUpload passes for file k
Callback(t) == <<"upload", t.id, t.k>>

\* (prog) => setProgress(prog), the callback processText passes for run r
FormatCallback(r) == <<"format", r, 0>>

\* The log of callback calls after cb(val)
Called(log, cb, val) ==
    [c \in DOMAIN log \cup {cb} |->
        IF c = cb
        THEN (IF cb \in DOMAIN log THEN Append(log[cb], val) ELSE <<val>>)
        ELSE log[c]]

\* The values callback cb was called with so far
DeliveredTo(cb) == IF cb \in DOMAIN delivered THEN delivered[cb] ELSE <<>>

CallProgress(g, cb, val) ==
    [g EXCEPT !.progress = val, !.delivered = Called(@, cb, val)]

---------------------------------------------------------------------------
(* handleFileUpload: type dispatch, the success branch and the catch       *)

fileExtension(file) == LastPiece(ToLowerCase(file.name))

\* Mutant: the image test comes before the PDF test
Strategy_ImageFirst(type, ext) ==
    IF StartsWith(type, MimeImage) \/ ext \in ImageExtensions THEN "processImage"
    ELSE IF type = MimePdf \/ ext = ExtPdf THEN "processPDF"
    ELSE IF type = MimeText \/ ext = ExtTxt THEN "text"
    ELSE "unsupported"

\* The if / else-if chain that picks the extraction call
Strategy(type, ext) ==
    IF type = MimePdf \/ ext = ExtPdf THEN "processPDF"
    ELSE IF StartsWith(type, MimeImage) \/ ext \in ImageExtensions THEN "processImage"
    ELSE IF type = MimeText \/ ext = ExtTxt THEN "text"
    ELSE "unsupported"

\* `Unsupported file type: ${file.type || fileExtension}`
UnsupportedError(type, ext) ==
    << <<"Unsupported file type", IF type # <<>> THEN type ELSE ext>> >>

\* The document the catch marks: d.name === file.name
CatchMatches(d, file) == d.name = file.name

RECURSIVE StartFile(_, _)

\* What became of file k: the value returned or the error caught, with what
\* the run did on the way (the capabilities invoked, the recognitions, the
\* failures of the environment, the pages accepted natively and the pages
\* rasterized)
Outcome(t, ok, result) ==
    [ok |-> ok, result |-> result, via |-> t.via, docId |-> t.docId,
     invoked |-> t.invoked, ocr |-> t.ocr, faults |-> t.faults,
     native |-> t.native, rendered |-> t.rendered]

NextFile(g, t) ==
    IF t.k < Len(t.files)
    THEN StartFile(g, [t EXCEPT !.k = @ + 1])
    ELSE [g |-> g, t |-> [t EXCEPT !.pc = "done"]]

\* Mutant: the catch ends the handler, the rest of the batch is abandoned
Catch_BatchAbandoned(g, t, err) ==
    LET file == t.files[t.k]
        docs == [j \in DOMAIN g.documents |->
                    IF CatchMatches(g.documents[j], file)
                    THEN [g.documents[j] EXCEPT !.status = "error"]
                    ELSE g.documents[j]]
    IN  [g |-> [g EXCEPT !.documents = docs, !.progress = Zero],
         t |-> [t EXCEPT !.out = Append(@, Outcome(t, FALSE, err)), !.pc = "done"]]

\* catch (error): every document with the file's name becomes 'error'
Catch(g, t, err) ==
    LET file == t.files[t.k]
        docs == [j \in DOMAIN g.documents |->
                    IF CatchMatches(g.documents[j], file)
                    THEN [g.documents[j] EXCEPT !.status = "error"]
                    ELSE g.documents[j]]
    IN  NextFile([g EXCEPT !.documents = docs, !.progress = Zero],
                 [t EXCEPT !.out = Append(@, Outcome(t, FALSE, err))])

\* Mutant: the document becomes ready whatever the text is
Extracted_NoEmptyTest(g, t, text) ==
    LET docs == [j \in DOMAIN g.documents |->
                    IF g.documents[j].id = t.docId
                    THEN [g.documents[j] EXCEPT !.status = "ready",
                                                !.extractedText = text]
                    ELSE g.documents[j]]
    IN  NextFile([g EXCEPT !.documents = docs, !.progress = Zero],
                 [t EXCEPT !.out = Append(@, Outcome(t, TRUE, text))])

\* if (extractedText && extractedText.trim()) ... else throw
Extracted(g, t, text) ==
    IF Trim(text) # <<>>
    THEN LET docs == [j \in DOMAIN g.documents |->
                         IF g.documents[j].id = t.docId
                         THEN [g.documents[j] EXCEPT !.status = "ready",
                                                     !.extractedText = text]
                         ELSE g.documents[j]]
         IN  NextFile([g EXCEPT !.documents = docs, !.progress = Zero],
                      [t EXCEPT !.out = Append(@, Outcome(t, TRUE, text))])
    ELSE Catch(g, t, << <<"No text could be extracted">> >>)

---------------------------------------------------------------------------
(* OCRService.init and processImage *)

\* init up to its await: returns at once when the handle is set, else asks
\* for an engine whose logger captures this call's onProgress
init(g, cb) ==
    IF g.worker # 0
    THEN [g |-> g, created |-> 0]
    ELSE [g |-> [g EXCEPT !.engine = Append(@, "creating"),
                          !.logger = Append(@, cb)],
          created |-> Len(g.engine) + 1]

\* this.worker = await Tesseract.createWorker(...)
initResolved(g, e) == [g EXCEPT !.worker = e, !.engine[e] = "live"]

\* Mutant: the catch of init leaves the handle as it is
initRejected_HandleKept(g, e) == [g EXCEPT !.engine[e] = "failed"]

\* catch: this.worker = null; throw
initRejected(g, e) == [g EXCEPT !.worker = 0, !.engine[e] = "failed"]

\* catch of processPDF: throw new Error(`PDF processing failed: ${error}`)
PdfThrow(g, t, err) == Catch(g, t, << <<"PDF processing failed">> >> \o err)

\* an error leaving processImage, to handleFileUpload or to processPDF
ImageThrow(g, t, err) ==
    IF t.via = "processPDF" THEN PdfThrow(g, t, err) ELSE Catch(g, t, err)

\* processImage after `await this.init(onProgress)`
AfterInit(g, t) ==
    IF g.worker = 0
    THEN ImageThrow(g, t, << <<"OCR worker not available">> >>)
    ELSE [g |-> g, t |-> [t EXCEPT !.pc = "recognize", !.eng = g.worker, !.ticks = 0]]

processImage(g, t, cb) ==
    LET r == init(g, cb)
        t1 == [t EXCEPT !.invoked = @ \cup {"recognition"}]
    IN  IF r.created = 0
        THEN AfterInit(r.g, t1)
        ELSE [g |-> r.g, t |-> [t1 EXCEPT !.pc = "createWorker", !.eng = r.created]]

---------------------------------------------------------------------------
(* OCRService.processPDF *)

NoTextInPdf == << <<"No text content could be extracted from this PDF">> >>

\* The head of `for (let i = 1; i <= totalPages; i++)` and what follows it
PdfLoop(g, t) ==
    IF t.i <= t.totalPages
    THEN [g |-> g, t |-> [t EXCEPT !.pc = "getPage"]]
    ELSE IF ~t.hasTextContent
    THEN PdfThrow(g, t, NoTextInPdf)
    ELSE Extracted(g, t, Join(t.textPages, <<"\n", "\n">>))

\* Mutant: the fraction counts the accepted pages, textPages.length
PageDone_CountsTextPages(g, t) ==
    PdfLoop(CallProgress(g, Callback(t), <<Len(t.textPages) * 100, t.totalPages>>),
            [t EXCEPT !.i = @ + 1])

\* if (onProgress) onProgress((i / totalPages) * 100), then i++
PageDone(g, t) ==
    PdfLoop(CallProgress(g, Callback(t), <<t.i * 100, t.totalPages>>),
            [t EXCEPT !.i = @ + 1])

pageText(items) == Join(items, <<" ">>)

\* Mutant: the length is taken without trim()
NativeAccepted_Untrimmed(items) == Len(pageText(items)) > NativeTextThreshold

\* if (pageText.trim().length > 20)
NativeAccepted(items) == Len(Trim(pageText(items))) > NativeTextThreshold

\* the text processImage returned for the page
PageRecognized(g, t, text) ==
    IF Len(Trim(text)) > 0
    THEN PageDone(g, [t EXCEPT !.textPages = Append(@, Trim(text)),
                               !.hasTextContent = TRUE])
    ELSE PageDone(g, t)

\* a value processImage returns, to handleFileUpload or to processPDF
ImageReturn(g, t, text) ==
    IF t.via = "processPDF" THEN PageRecognized(g, t, text) ELSE Extracted(g, t, text)

\* Mutant: the catch of processImage rethrows without the cause
Recognized_CauseDropped(g, t, text) ==
    IF Trim(text) = <<>>
    THEN ImageThrow(g, t, << <<"Image processing failed">> >>)
    ELSE ImageReturn(g, t, Trim(text))

\* recognize resolved: empty text is thrown and rethrown by processImage's catch
Recognized(g, t, text) ==
    IF Trim(text) = <<>>
    THEN ImageThrow(g, t, << <<"Image processing failed">>,
                             <<"No text could be extracted from this image">> >>)
    ELSE ImageReturn(g, t, Trim(text))

---------------------------------------------------------------------------
(* One file of the batch, up to its first suspension *)

StartFile(g, t) ==
    LET file == t.files[t.k]
        ext  == fileExtension(file)
        id   == g.nextId + 1
        doc  == [id |-> id, name |-> file.name, status |-> "processing",
                 extractedText |-> <<>>]
        g1   == [g EXCEPT !.documents = <<doc>> \o @, !.nextId = id]
        t1   == [t EXCEPT !.docId = id, !.via = Strategy(file.type, ext),
                          !.eng = 0, !.i = 0, !.totalPages = 0,
                          !.textPages = <<>>, !.hasTextContent = FALSE,
                          !.ticks = 0, !.invoked = {}, !.ocr = <<>>,
                          !.faults = {}, !.native = {}, !.rendered = {}]
    IN  CASE t1.via = "processPDF" ->
               [g |-> g1, t |-> [t1 EXCEPT !.pc = "getDocument",
                                           !.invoked = {"parsing"}]]
          [] t1.via = "processImage" -> processImage(g1, t1, Callback(t1))
          [] t1.via = "text" ->
               [g |-> g1, t |-> [t1 EXCEPT !.pc = "fileText",
                                           !.invoked = {"read"}]]
          [] OTHER -> Catch(g1, t1, UnsupportedError(file.type, ext))

---------------------------------------------------------------------------
(* Actions *)

Uploads == 1..MaxUploads

\* The shared state and the task after one step of upload u (the result
\* of the step is bound once)
Commit(u, r) ==
    \E after \in {r} :
        /\ worker' = after.g.worker
        /\ engine' = after.g.engine
        /\ logger' = after.g.logger
        /\ documents' = after.g.documents
        /\ progress' = after.g.progress
        /\ nextId' = after.g.nextId
        /\ delivered' = after.g.delivered
        /\ up' = [up EXCEPT ![u] = after.t]

\* The user drops or picks a batch of files
HandleFileUpload(u) ==
    /\ mounted
    /\ up[u].pc = "idle"
    /\ Commit(u, NextFile(G, up[u]))
    /\ UNCHANGED rest

\* file.arrayBuffer() and pdfjsLib.getDocument(...).promise settle
GetDocument(u) ==
    LET t == up[u]
        file == t.files[t.k]
    IN  /\ t.pc = "getDocument"
        /\ Commit(u, IF file.parses
                     THEN PdfLoop(G, [t EXCEPT !.totalPages = Len(file.pages), !.i = 1])
                     ELSE PdfThrow(G, [t EXCEPT !.faults = @ \cup {"getDocument"}],
                                   << <<"InvalidPDFException">> >>))
        /\ UNCHANGED rest

\* getPage(i) or getTextContent() rejects
GetPageRejects(u) ==
    LET t == up[u]
    IN  /\ t.pc = "getPage"
        /\ Commit(u, PdfThrow(G, [t EXCEPT !.faults = @ \cup {"getPage"}],
                               << <<"page could not be read">> >>))
        /\ UNCHANGED rest

\* the page has a native text layer of more than 20 characters
GetPageNative(u) ==
    LET t == up[u]
        items == t.files[t.k].pages[t.i]
    IN  /\ t.pc = "getPage"
        /\ NativeAccepted(items)
        /\ Commit(u, PageDone(G, [t EXCEPT !.textPages = Append(@, pageText(items)),
                                           !.hasTextContent = TRUE,
                                           !.native = @ \cup {t.i}]))
        /\ UNCHANGED rest

\* fallback, but canvas.getContext('2d') gives null
GetPageNoContext(u) ==
    LET t == up[u]
        items == t.files[t.k].pages[t.i]
    IN  /\ t.pc = "getPage"
        /\ ~NativeAccepted(items)
        /\ Commit(u, PageDone(G, [t EXCEPT !.faults = @ \cup {"getContext"}]))
        /\ UNCHANGED rest

\* fallback: page.render(...) is started
GetPageFallback(u) ==
    LET t == up[u]
        items == t.files[t.k].pages[t.i]
    IN  /\ t.pc = "getPage"
        /\ ~NativeAccepted(items)
        /\ Commit(u, [g |-> G, t |-> [t EXCEPT !.pc = "render",
                                                !.rendered = @ \cup {t.i}]])
        /\ UNCHANGED rest

\* render and toBlob settle: this.processImage(imageFile), without onProgress
RenderResolves(u) ==
    LET t == up[u]
    IN  /\ t.pc = "render"
        /\ Commit(u, processImage(G, t, NoCb))
        /\ UNCHANGED rest

RenderRejects(u) ==
    LET t == up[u]
    IN  /\ t.pc = "render"
        /\ Commit(u, PdfThrow(G, [t EXCEPT !.faults = @ \cup {"render"}],
                               << <<"RenderingCancelledException">> >>))
        /\ UNCHANGED rest

\* createWorker resolves for a processImage call
CreateWorkerResolves(u) ==
    LET t == up[u]
    IN  /\ t.pc = "createWorker"
        /\ Commit(u, AfterInit(initResolved(G, t.eng), t))
        /\ UNCHANGED rest

\* createWorker rejects for a processImage call
CreateWorkerRejects(u) ==
    LET t == up[u]
    IN  /\ t.pc = "createWorker"
        /\ Commit(u, ImageThrow(initRejected(G, t.eng),
                                [t EXCEPT !.faults = @ \cup {"createWorker"}],
                                << <<"Failed to initialize OCR engine">> >>))
        /\ UNCHANGED rest

\* worker.recognize resolves with a text
RecognizeResolves(u, text) ==
    LET t == up[u]
    IN  /\ t.pc = "recognize"
        /\ engine[t.eng] = "live"
        /\ Commit(u, Recognized(G, [t EXCEPT !.ocr = Append(@, <<t.i, text>>)], text))
        /\ UNCHANGED rest

\* worker.recognize rejects; processImage's catch rethrows
RecognizeRejects(u) ==
    LET t == up[u]
    IN  /\ t.pc = "recognize"
        /\ Commit(u, ImageThrow(G, [t EXCEPT !.faults = @ \cup {"recognize"}],
                                << <<"Image processing failed">>,
                                   <<"recognize rejected">> >>))
        /\ UNCHANGED rest

\* the engine that runs u's recognition reports through its logger
LoggerProgress(u) ==
    LET t == up[u]
    IN  /\ t.pc = "recognize"
        /\ engine[t.eng] = "live"
        /\ \E j \in (t.ticks + 1)..Len(EngineFractions) :
             LET m == EngineFractions[j]
                 cb == logger[t.eng]
                 g1 == IF cb # NoCb
                       THEN CallProgress(G, cb, <<m[1] * 100, m[2]>>)
                       ELSE G
             IN  Commit(u, [g |-> g1, t |-> [t EXCEPT !.ticks = j]])
        /\ UNCHANGED rest

\* file.text() settles
FileTextResolves(u) ==
    LET t == up[u]
    IN  /\ t.pc = "fileText"
        /\ Commit(u, Extracted(G, t, t.files[t.k].text))
        /\ UNCHANGED rest

FileTextRejects(u) ==
    LET t == up[u]
    IN  /\ t.pc = "fileText"
        /\ Commit(u, Catch(G, [t EXCEPT !.faults = @ \cup {"text"}],
                            << <<"NotReadableError">> >>))
        /\ UNCHANGED rest

\* The mount effect's timer fires: OCRService.init() without onProgress
BackgroundInit ==
    /\ bg.pc = "timer"
    /\ LET r == init(G, NoCb)
       IN  /\ worker' = r.g.worker
           /\ engine' = r.g.engine
           /\ logger' = r.g.logger
           /\ bg' = IF r.created = 0 THEN [pc |-> "done", eng |-> 0]
                    ELSE [pc |-> "createWorker", eng |-> r.created]
    /\ UNCHANGED <<documents, progress, nextId, delivered, up, mounted, cleanupCalls,
                   fmt, processing, resetTimers>>

BackgroundResolves ==
    /\ bg.pc = "createWorker"
    /\ LET g1 == initResolved(G, bg.eng)
       IN  /\ worker' = g1.worker
           /\ engine' = g1.engine
    /\ bg' = [bg EXCEPT !.pc = "done"]
    /\ UNCHANGED <<logger, documents, progress, nextId, delivered, up, mounted,
                   cleanupCalls, fmt, processing, resetTimers>>

\* .catch(() => console.warn(...))
BackgroundRejects ==
    /\ bg.pc = "createWorker"
    /\ LET g1 == initRejected(G, bg.eng)
       IN  /\ worker' = g1.worker
           /\ engine' = g1.engine
    /\ bg' = [bg EXCEPT !.pc = "failed"]
    /\ UNCHANGED <<logger, documents, progress, nextId, delivered, up, mounted,
                   cleanupCalls, fmt, processing, resetTimers>>

\* The state of an engine after worker.terminate() was called on it
Terminate(state) ==
    IF state \in {"terminated", "terminated twice"}
    THEN "terminated twice" ELSE "terminated"

\* Mutant: the handle is not cleared after terminate()
cleanup_HandleKept(g) ==
    IF g.worker # 0
    THEN [g EXCEPT !.engine[g.worker] = Terminate(@)]
    ELSE g

\* OCRService.cleanup
cleanup(g) ==
    IF g.worker # 0
    THEN [g EXCEPT !.engine[g.worker] = Terminate(@), !.worker = 0]
    ELSE g

\* The unmount handler of the mount effect
Unmount ==
    /\ mounted
    /\ mounted' = FALSE
    /\ cleanupCalls' = cleanupCalls + 1
    /\ LET g1 == cleanup(G)
       IN  /\ worker' = g1.worker
           /\ engine' = g1.engine
    /\ UNCHANGED <<logger, documents, progress, nextId, delivered, up, bg,
                   fmt, processing, resetTimers>>

\* OCRService.cleanup() is called by a caller other than the unmount handler
Cleanup ==
    /\ cleanupCalls < MaxCleanups
    /\ cleanupCalls' = cleanupCalls + 1
    /\ LET g1 == cleanup(G)
       IN  /\ worker' = g1.worker
           /\ engine' = g1.engine
    /\ UNCHANGED <<logger, documents, progress, nextId, delivered, up, bg,
                   mounted, fmt, processing, resetTimers>>

\* The remove button of a document:
\* setDocuments(prev => prev.filter(d => d.id !== doc.id))
RemoveDocument(id) ==
    /\ mounted
    /\ \E j \in DOMAIN documents : documents[j].id = id
    /\ documents' = SelectSeq(documents, LAMBDA d : d.id # id)
    /\ UNCHANGED <<worker, engine, logger, progress, nextId, delivered, up, bg,
                   mounted, cleanupCalls, fmt, processing, resetTimers>>

---------------------------------------------------------------------------
(* AIService.localProcessing, convertToMarkdown and convertToHTML: the      *)
(* regular expressions are computed as String.prototype.replace computes    *)
(* them, scanning the text from the left from position p                    *)

White == {" ", "\t", "\n", "\r"}
SpaceTab == {" ", "\t"}
Newline == {"\n"}
BulletMarks == {"-", "*"}
Digits == {"0", "1", "2", "3", "4", "5", "6", "7", "8", "9"}
Letters ==
    {"a", "b", "c", "d", "e", "f", "g", "h", "i", "j", "k", "l", "m", "n",
     "o", "p", "q", "r", "s", "t", "u", "v", "w", "x", "y", "z", "A", "B",
     "C", "D", "E", "F", "G", "H", "I", "J", "K", "L", "M", "N", "O", "P",
     "Q", "R", "S", "T", "U", "V", "W", "X", "Y", "Z"}
WordChars == Letters \cup Digits \cup {"_"}

\* the line terminators of ^, $ and .
LineTerminators == {"\n", "\r"}

\* ^ and $ under the m flag, at the position before s[p]
AtLineStart(s, p) == p = 1 \/ s[p - 1] \in LineTerminators
AtLineEnd(s, p) == p = Len(s) + 1 \/ s[p] \in LineTerminators

\* \b at the position before s[p]
AtWordBoundary(s, p) ==
    (p > 1 /\ s[p - 1] \in WordChars) # (p <= Len(s) /\ s[p] \in WordChars)

\* The position after the longest run of characters of `chars` from p
RunEnd(s, p, chars) ==
    CHOOSE q \in p..(Len(s) + 1) :
        /\ \A i \in p..(q - 1) : s[i] \in chars
        /\ q = Len(s) + 1 \/ s[q] \notin chars

\* s.substring(a - 1, b - 1): the characters at positions a to b - 1
Sub(s, a, b) == SubSeq(s, a, b - 1)

\* .replace(/\r\n/g, '\n')
RECURSIVE ReplaceCrLf(_, _)
ReplaceCrLf(s, p) ==
    IF p > Len(s) THEN <<>>
    ELSE IF s[p] = "\r" /\ p < Len(s) /\ s[p + 1] = "\n"
    THEN <<"\n">> \o ReplaceCrLf(s, p + 2)
    ELSE <<s[p]>> \o ReplaceCrLf(s, p + 1)

\* .replace(/\n{min,}/g, '\n\n')
RECURSIVE CollapseNewlines(_, _, _)
CollapseNewlines(s, p, min) ==
    IF p > Len(s) THEN <<>>
    ELSE LET q == RunEnd(s, p, Newline)
         IN  IF q - p >= min
             THEN <<"\n", "\n">> \o CollapseNewlines(s, q, min)
             ELSE <<s[p]>> \o CollapseNewlines(s, p + 1, min)

\* .replace(/[ \t]+/g, ' ')
RECURSIVE CollapseSpaces(_, _)
CollapseSpaces(s, p) ==
    IF p > Len(s) THEN <<>>
    ELSE IF s[p] \in SpaceTab
    THEN <<" ">> \o CollapseSpaces(s, RunEnd(s, p, SpaceTab))
    ELSE <<s[p]>> \o CollapseSpaces(s, p + 1)

\* The end of the longest match of \s+$ at p, or p when there is none
EndOfTrailing(s, p) ==
    LET ends == { e \in (p + 1)..RunEnd(s, p, White) : AtLineEnd(s, e) }
    IN  IF ends = {} THEN p ELSE CHOOSE e \in ends : \A x \in ends : x <= e

\* .replace(/^\s+|\s+$/gm, ''): \s also matches the line terminators
RECURSIVE StripLines(_, _)
StripLines(s, p) ==
    IF p > Len(s) THEN <<>>
    ELSE IF s[p] \in White /\ AtLineStart(s, p)
    THEN StripLines(s, RunEnd(s, p, White))
    ELSE IF s[p] \in White /\ EndOfTrailing(s, p) > p
    THEN StripLines(s, EndOfTrailing(s, p))
    ELSE <<s[p]>> \o StripLines(s, p + 1)

\* .replace(/^(#+)\s*(.*)$/gm, '# $2')
RECURSIVE Headings(_, _)
Headings(s, p) ==
    IF p > Len(s) THEN <<>>
    ELSE IF s[p] = "#" /\ AtLineStart(s, p)
    THEN LET h == RunEnd(s, p, {"#"})
             w == RunEnd(s, h, White)
             e == CHOOSE q \in w..(Len(s) + 1) :
                     /\ \A i \in w..(q - 1) : s[i] \notin LineTerminators
                     /\ AtLineEnd(s, q)
         IN  <<"#", " ">> \o Sub(s, w, e) \o Headings(s, e)
    ELSE <<s[p]>> \o Headings(s, p + 1)

\* The end of the match of \s*[-*]\s+ at p, or p when there is none
EndOfBullet(s, p) ==
    LET w == RunEnd(s, p, White)
    IN  IF w <= Len(s) /\ s[w] \in BulletMarks /\ RunEnd(s, w + 1, White) > w + 1
        THEN RunEnd(s, w + 1, White)
        ELSE p

\* .replace(/^\s*[-*]\s+/gm, '- ')
RECURSIVE Bullets(_, _)
Bullets(s, p) ==
    IF p > Len(s) THEN <<>>
    ELSE IF AtLineStart(s, p) /\ EndOfBullet(s, p) > p
    THEN <<"-", " ">> \o Bullets(s, EndOfBullet(s, p))
    ELSE <<s[p]>> \o Bullets(s, p + 1)

\* .replace(/\b(\d+)\.\s+/g, '$1. ')
RECURSIVE Numbers(_, _)
Numbers(s, p) ==
    IF p > Len(s) THEN <<>>
    ELSE LET d == RunEnd(s, p, Digits)
             x == IF d <= Len(s) /\ s[d] = "." THEN RunEnd(s, d + 1, White) ELSE d
         IN  IF s[p] \in Digits /\ AtWordBoundary(s, p) /\ x > d + 1
             THEN Sub(s, p, d) \o <<".", " ">> \o Numbers(s, x)
             ELSE <<s[p]>> \o Numbers(s, p + 1)

convertToMarkdown(text) ==
    Trim(Numbers(Bullets(CollapseNewlines(Headings(text, 1), 1, 2), 1), 1))

\* s.split(sep): the pieces between the occurrences of sep, from position p
RECURSIVE Split(_, _, _)
Split(s, sep, p) ==
    LET hits == { q \in p..(Len(s) - Len(sep) + 1) : Sub(s, q, q + Len(sep)) = sep }
    IN  IF hits = {} THEN << Sub(s, p, Len(s) + 1) >>
        ELSE LET q == CHOOSE x \in hits : \A y \in hits : x <= y
             IN  << Sub(s, p, q) >> \o Split(s, sep, q + Len(sep))

\* /^\s*[-*]\s+/.test(para)
IsList(para) == EndOfBullet(para, 1) > 1

\* `  <li>${cleanItem}</li>\n` for every line of the block that is not blank
RECURSIVE ListItems(_)
ListItems(lines) ==
    IF lines = <<>> THEN <<>>
    ELSE LET item == Head(lines)
         IN  (IF Trim(item) = <<>> THEN <<>>
              ELSE <<" ", " ", "<", "l", "i", ">">>
                   \o Sub(item, EndOfBullet(item, 1), Len(item) + 1)
                   \o <<"<", "/", "l", "i", ">", "\n">>)
             \o ListItems(Tail(lines))

\* the body of `for (const para of paragraphs)`, for the blocks that remain
RECURSIVE Blocks(_)
Blocks(paragraphs) ==
    IF paragraphs = <<>> THEN <<>>
    ELSE LET para == Head(paragraphs)
         IN  (IF Trim(para) = <<>> THEN <<>>
              ELSE IF IsList(para)
              THEN <<"<", "u", "l", ">", "\n">>
                   \o ListItems(Split(para, <<"\n">>, 1))
                   \o <<"<", "/", "u", "l", ">", "\n">>
              ELSE <<"<", "p", ">">> \o para \o <<"<", "/", "p", ">", "\n">>)
             \o Blocks(Tail(paragraphs))

convertToHTML(text) == Blocks(Split(text, <<"\n", "\n">>, 1))

Formats == {"text", "markdown", "html"}

localProcessing(text, format) ==
    LET processed ==
            Trim(StripLines(CollapseSpaces(CollapseNewlines(ReplaceCrLf(text, 1),
                                                            1, 3), 1), 1))
    IN  IF format = "markdown" THEN convertToMarkdown(processed)
        ELSE IF format = "html" THEN convertToHTML(processed)
        ELSE processed

---------------------------------------------------------------------------
(* processText, AIService.callProvider and the two shapes of remote call  *)

Runs == 1..MaxRuns

\* requiresKey of the Providers table; no entry for an unknown name
Providers ==
    [groq |-> TRUE, deepseek |-> TRUE, huggingface |-> TRUE, openai |-> TRUE,
     local |-> FALSE]

NoSettings == [provider |-> "", apiKey |-> ""]

SettingsChoices ==
    { [provider |-> p, apiKey |-> k] :
        p \in {"", "groq", "mistral"}, k \in {"", "key"} }

\* no response body was read
NoBody == [json |-> FALSE, error |-> "", raw |-> ""]

\* One invocation of processText: where it waits, the requests fetch was
\* called for, the timer and the AbortController of the remote call, whether
\* the timeout window has elapsed since the request, the response status,
\* the body of a non-2xx response,
\* the error thrown to processText, the text and the format passed to
\* callProvider and what localProcessing returned
IdleRun ==
    [pc |-> "idle", settings |-> NoSettings, requests |-> 0, timer |-> "none",
     aborted |-> FALSE, expired |-> FALSE, status |-> 0, body |-> NoBody,
     error |-> <<>>,
     text |-> TextA, format |-> "text", output |-> <<>>, again |-> <<>>]

\* Errors the code constructs, and errors of the runtime it rethrows as is
InvalidProviderError == << <<"Invalid provider selected">> >>
ApiKeyRequired(provider) == << <<"API key required for", provider>> >>
RequestTimeout == << <<"Request timeout - please try again">> >>
ModelIsLoading == << <<"Model is loading. Please try again in about">> >>
FailedToFetch == << <<"TypeError", "Failed to fetch">> >>
JsonSyntaxError == << <<"SyntaxError", "Unexpected token">> >>

\* Status codes of a response, and the bodies of a non-2xx response: JSON
\* with an error message, JSON whose error says the model is loading, and
\* a body that is not JSON
HttpStatuses == {200, 401, 503}
ResponseOk(status) == status >= 200 /\ status <= 299

ErrorBodies ==
    { [json |-> TRUE,  error |-> "Rate limit reached",
       raw |-> "{\"error\": \"Rate limit reached\"}"],
      [json |-> TRUE,  error |-> "Model is currently loading",
       raw |-> "{\"error\": \"Model is currently loading\"}"],
      [json |-> FALSE, error |-> "", raw |-> "Bad Gateway"] }

\* errorData.error.includes('loading')
IncludesLoading(body) == body.error = "Model is currently loading"

\* The shape of the request: callHuggingFace, or callOpenAICompatible
\* (directly or through callDeepSeek)
Shape(provider) == IF provider = "huggingface" THEN "inference" ELSE "chat"

\* errorMsg of a non-2xx response whose body decoded
DecodedErrorMsg(provider, body) ==
    IF Shape(provider) = "inference" /\ IncludesLoading(body)
    THEN ModelIsLoading
    ELSE << <<body.error>> >>

\* errorMsg when response.json() rejected: the body is already consumed, so
\* response.text() rejects too and its catch gives 'Unknown error'
UndecodedErrorMsg(provider, status) ==
    << <<IF Shape(provider) = "inference"
         THEN "Hugging Face API Error" ELSE "API Error",
         status, "Unknown error">> >>

\* Mutant: the credential test is missing
callProvider_NoKeyTest(settings) ==
    IF settings.provider = "" \/ settings.provider = "local" THEN "local"
    ELSE IF settings.provider \notin DOMAIN Providers THEN "invalid"
    ELSE "fetch"

\* callProvider up to its first await: "local" (localProcessing returns),
\* an error thrown before any request, or "fetch" (a request is sent)
callProvider(settings) ==
    IF settings.provider = "" \/ settings.provider = "local" THEN "local"
    ELSE IF settings.provider \notin DOMAIN Providers THEN "invalid"
    ELSE IF Providers[settings.provider] /\ settings.apiKey = "" THEN "key"
    ELSE "fetch"

\* new AbortController(), setTimeout(() => controller.abort(), ...), fetch
SendRequest(run) ==
    [run EXCEPT !.pc = "fetch", !.requests = @ + 1, !.timer = "armed"]

\* an error reaches processText's catch; the catch of the remote call has
\* cleared the timer on the way
Thrown(run, err) ==
    [run EXCEPT !.pc = "failed", !.error = err,
                !.timer = IF @ = "armed" THEN "cleared" ELSE @]

\* Mutant: a rejected fetch is sent once more
FetchRejected_Retry(run) ==
    IF run.requests < 2 THEN SendRequest(run) ELSE Thrown(run, FailedToFetch)

\* the catch of the remote call for a rejected fetch: not an AbortError,
\* rethrown as it is
FetchRejected(run) == Thrown(run, FailedToFetch)

\* the timer's callback: controller.abort(); fetch rejects with an
\* AbortError, which the catch turns into the timeout error
Aborted(run) ==
    Thrown([run EXCEPT !.timer = "fired", !.aborted = TRUE], RequestTimeout)

\* The state after run r's await of callProvider settled with `run`:
\* callProvider's catch calls onProgress(0) for an error of the remote call,
\* processText's catch setProgress(0), finally setProcessing(false)
Settle(r, run) ==
    /\ fmt' = [fmt EXCEPT ![r] = run]
    /\ processing' = FALSE
    /\ IF run.pc = "failed"
       THEN /\ progress' = Zero
            /\ delivered' = IF run.requests > 0
                            THEN Called(delivered, FormatCallback(r), Zero)
                            ELSE delivered
            /\ UNCHANGED resetTimers
       ELSE IF run.pc = "done"
       THEN \* setProgress(100) and the 2-second timer
            /\ progress' = Pct(100)
            /\ resetTimers' = resetTimers + 1
            /\ delivered' = IF run.requests > 0
                            THEN Called(delivered, FormatCallback(r), Pct(90))
                            ELSE delivered
       ELSE \* fetch was called again
            UNCHANGED <<progress, delivered, resetTimers>>

\* processText is called (the button or Ctrl+Enter) with text and a prompt
\* entered: setProcessing(true), setProgress(10), callProvider(...)
ProcessText(r, settings) ==
    LET c == callProvider(settings)
        run == [fmt[r] EXCEPT !.settings = settings]
    IN  /\ mounted
        /\ fmt[r].pc = "idle"
        /\ IF c = "local"
           THEN \* return this.localProcessing(userText, format)
                Settle(r, [run EXCEPT !.pc = "done",
                                      !.output = localProcessing(run.text, run.format)])
           ELSE IF c = "fetch"
           THEN \* onProgress(10), request sent
                /\ fmt' = [fmt EXCEPT ![r] = SendRequest(run)]
                /\ progress' = Pct(10)
                /\ delivered' = Called(delivered, FormatCallback(r), Pct(10))
                /\ processing' = TRUE
                /\ UNCHANGED resetTimers
           ELSE IF c = "invalid"
           THEN Settle(r, Thrown(run, InvalidProviderError))
           ELSE Settle(r, Thrown(run, ApiKeyRequired(settings.provider)))
        /\ UNCHANGED <<worker, engine, logger, documents, nextId, up, bg, mounted,
                       cleanupCalls>>

\* the response's head arrives: clearTimeout, then response.json() is
\* awaited, for the result or for the error's data
FetchResolves(r, status) ==
    /\ fmt[r].pc = "fetch"
    /\ fmt' = [fmt EXCEPT ![r].pc = IF ResponseOk(status) THEN "json" ELSE "errorJson",
                          ![r].status = status,
                          ![r].timer = "cleared"]
    /\ UNCHANGED <<worker, engine, logger, documents, progress, nextId, delivered,
                   up, bg, mounted, cleanupCalls, processing, resetTimers>>

\* fetch rejects: the network failed
FetchRejects(r) ==
    /\ fmt[r].pc = "fetch"
    /\ Settle(r, FetchRejected(fmt[r]))
    /\ UNCHANGED <<worker, engine, logger, documents, nextId, up, bg, mounted,
                   cleanupCalls>>

\* The timeout (30 s, 45 s for the inference shape) elapses while the call
\* has not returned: the timer's callback runs unless it was cleared
TimeoutElapses(r) ==
    /\ fmt[r].pc \in {"fetch", "json", "errorJson"}
    /\ ~fmt[r].expired
    /\ IF fmt[r].timer = "armed"
       THEN Settle(r, Aborted([fmt[r] EXCEPT !.expired = TRUE]))
       ELSE /\ fmt' = [fmt EXCEPT ![r].expired = TRUE]
            /\ UNCHANGED <<progress, delivered, processing, resetTimers>>
    /\ UNCHANGED <<worker, engine, logger, documents, nextId, up, bg, mounted,
                   cleanupCalls>>

\* the body of a 2xx response decodes: onProgress(90), the text is returned
JsonResolves(r) ==
    /\ fmt[r].pc = "json"
    /\ Settle(r, [fmt[r] EXCEPT !.pc = "done"])
    /\ UNCHANGED <<worker, engine, logger, documents, nextId, up, bg, mounted,
                   cleanupCalls>>

\* the body of a 2xx response does not decode: the catch rethrows
JsonRejects(r) ==
    /\ fmt[r].pc = "json"
    /\ Settle(r, Thrown(fmt[r], JsonSyntaxError))
    /\ UNCHANGED <<worker, engine, logger, documents, nextId, up, bg, mounted,
                   cleanupCalls>>

\* the body of a non-2xx response settles: throw new Error(errorMsg)
ErrorJsonSettles(r, body) ==
    LET run == fmt[r]
        provider == run.settings.provider
    IN  /\ run.pc = "errorJson"
        /\ Settle(r, Thrown([run EXCEPT !.body = body],
                             IF body.json
                             THEN DecodedErrorMsg(provider, body)
                             ELSE UndecodedErrorMsg(provider, run.status)))
        /\ UNCHANGED <<worker, engine, logger, documents, nextId, up, bg, mounted,
                       cleanupCalls>>

\* localProcessing(text, format) is applied to the text of run r
LocalProcessing(r) ==
    /\ fmt[r].pc = "text"
    /\ fmt' = [fmt EXCEPT ![r].pc = "once",
                          ![r].output = localProcessing(fmt[r].text, fmt[r].format)]
    /\ UNCHANGED <<worker, engine, logger, documents, progress, nextId, delivered,
                   up, bg, mounted, cleanupCalls, processing, resetTimers>>

\* localProcessing is applied, with the same format, to what it returned
LocalProcessingAgain(r) ==
    /\ fmt[r].pc = "once"
    /\ fmt' = [fmt EXCEPT ![r].pc = "twice",
                          ![r].again = localProcessing(fmt[r].output, fmt[r].format)]
    /\ UNCHANGED <<worker, engine, logger, documents, progress, nextId, delivered,
                   up, bg, mounted, cleanupCalls, processing, resetTimers>>

\* setTimeout(() => { setProgress(0); ... }, 2000) of a successful run fires
ResetTimer ==
    /\ resetTimers > 0
    /\ resetTimers' = resetTimers - 1
    /\ progress' = Zero
    /\ UNCHANGED <<worker, engine, logger, documents, nextId, delivered, up, bg,
                   mounted, cleanupCalls, fmt, processing>>

---------------------------------------------------------------------------
(* Specifications *)

FileImage == MkFile(NamePng, MimePng, Empty, FALSE, <<>>)
FileScan  == MkFile(NamePdf, MimePdf, Empty, TRUE, <<PageText, PageNone>>)

InitWith(tasks) ==
    /\ worker = 0
    /\ engine = <<>>
    /\ logger = <<>>
    /\ documents = <<>>
    /\ progress = Zero
    /\ nextId = 0
    /\ delivered = <<>>
    /\ up \in tasks
    /\ bg = [pc |-> "timer", eng |-> 0]
    /\ mounted = TRUE
    /\ cleanupCalls = 0
    /\ fmt = [r \in Runs |-> IdleRun]
    /\ processing = FALSE
    /\ resetTimers = 0

\* Every upload has a batch of `batches`
AllOf(batches) ==
    { [u \in Uploads |-> IdleTask(u, f[u])] : f \in [Uploads -> batches] }

\* The first two uploads have a batch of `batches`, the others have no file
BothOf(batches) ==
    { [u \in Uploads |-> IdleTask(u, IF u = 1 THEN b ELSE IF u = 2 THEN c ELSE <<>>)] :
        b \in batches, c \in batches }

\* The first upload has a batch of `batches`, the others have no file
FirstOf(batches) ==
    { [u \in Uploads |-> IdleTask(u, IF u = 1 THEN b ELSE <<>>)] : b \in batches }

OcrStep(u) ==
    \/ CreateWorkerResolves(u)
    \/ CreateWorkerRejects(u)
    \/ \E text \in RecognizedTexts : RecognizeResolves(u, text)
    \/ RecognizeRejects(u)
    \/ LoggerProgress(u)

PdfStep(u) ==
    \/ GetDocument(u)
    \/ GetPageRejects(u)
    \/ GetPageNative(u)
    \/ GetPageNoContext(u)
    \/ GetPageFallback(u)
    \/ RenderResolves(u)
    \/ RenderRejects(u)

TextStep(u) == FileTextResolves(u) \/ FileTextRejects(u)

Background == BackgroundInit \/ BackgroundResolves \/ BackgroundRejects

RemoteStep(r) ==
    \/ \E status \in HttpStatuses : FetchResolves(r, status)
    \/ FetchRejects(r)
    \/ TimeoutElapses(r)
    \/ JsonResolves(r)
    \/ JsonRejects(r)
    \/ \E body \in ErrorBodies : ErrorJsonSettles(r, body)

FormatStep(r) ==
    \/ \E settings \in SettingsChoices : ProcessText(r, settings)
    \/ RemoteStep(r)

\* Spec: overlapping uploads of images and of PDFs with scanned pages, the
\* background init of the mount effect and the unmount
Batches == { <<FileImage>>, <<FileScan>> }

Init == InitWith(AllOf(Batches))

Next ==
    \/ \E u \in Uploads : HandleFileUpload(u) \/ PdfStep(u) \/ OcrStep(u)
    \/ Background
    \/ Unmount

Spec == Init /\ [][Next]_vars

\* SpecPDF: one upload of a PDF of up to MaxPages pages of every kind, alone
\* or after an image in the same batch
Pdfs ==
    { MkFile(NamePdf, MimePdf, Empty, TRUE, pages) :
        pages \in UNION { [1..n -> PageKinds] : n \in 0..MaxPages } }

PdfBatches == { <<pdf>> : pdf \in Pdfs } \cup { <<FileImage, pdf>> : pdf \in Pdfs }

InitPDF == InitWith(FirstOf(PdfBatches))

NextPDF == HandleFileUpload(1) \/ PdfStep(1) \/ OcrStep(1)

SpecPDF == InitPDF /\ [][NextPDF]_vars

\* SpecDispatch: one upload of one file of every declared type and name
DispatchTypes == {MimePdf, MimePng, MimeText, MimeZip, MimeNone}

DispatchNames ==
    {NamePdf, NamePdfUpper, NamePng, NameGif, NameTxt, NameTxtUpper, NameExe,
     NameBare, NameDot, NameTwoDots}

DispatchFiles ==
    { MkFile(name, type, TextA, TRUE, <<PageText, PageNone>>) :
        name \in DispatchNames, type \in DispatchTypes }

InitDispatch == InitWith(FirstOf({ <<file>> : file \in DispatchFiles }))

NextDispatch == HandleFileUpload(1) \/ PdfStep(1) \/ OcrStep(1) \/ TextStep(1)

SpecDispatch == InitDispatch /\ [][NextDispatch]_vars

\* SpecProgress: an upload of an image and a PDF, formatting runs and their
\* reset timers
InitProgress == InitWith(FirstOf({ <<FileImage, FileScan>> }))

NextProgress ==
    \/ HandleFileUpload(1) \/ PdfStep(1) \/ OcrStep(1)
    \/ \E r \in Runs : FormatStep(r)
    \/ ResetTimer

SpecProgress == InitProgress /\ [][NextProgress]_vars

\* SpecRemote: formatting runs with every kind of provider setting, with
\* and without a key, and every outcome of the remote call
RemoteSettings ==
    { [provider |-> p, apiKey |-> k] :
        p \in {"", "local", "groq", "deepseek", "huggingface", "mistral"},
        k \in {"", "key"} }

InitRemote == InitWith(FirstOf({ <<>> }))

NextRemote ==
    \/ \E r \in Runs :
         \/ \E settings \in RemoteSettings : ProcessText(r, settings)
         \/ RemoteStep(r)
    \/ ResetTimer

SpecRemote == InitRemote /\ [][NextRemote]_vars

\* SpecLocal: localProcessing applied to every text of up to MaxText
\* characters and to a list followed by a paragraph, in every format, and
\* then to its own output
LocalAlphabet == {"a", " ", "\n", "\r", "\t", "-", "*", "#", "1", "."}

ListThenParagraph ==
    <<"-", " ", "a", "\n", "-", " ", "b", "\n", "\n",
      "S", "e", "c", "o", "n", "d", " ", "p", "a", "r", "a">>

LocalInputs ==
    UNION { [1..n -> LocalAlphabet] : n \in 0..MaxText } \cup {ListThenParagraph}

InitLocal ==
    /\ worker = 0
    /\ engine = <<>>
    /\ logger = <<>>
    /\ documents = <<>>
    /\ progress = Zero
    /\ nextId = 0
    /\ delivered = <<>>
    /\ up = [u \in Uploads |-> IdleTask(u, <<>>)]
    /\ bg = [pc |-> "timer", eng |-> 0]
    /\ mounted = TRUE
    /\ cleanupCalls = 0
    /\ \E text \in LocalInputs, format \in Formats :
         fmt = [r \in Runs |->
                  IF r = 1
                  THEN [IdleRun EXCEPT !.pc = "text", !.text = text,
                                       !.format = format]
                  ELSE IdleRun]
    /\ processing = FALSE
    /\ resetTimers = 0

NextLocal == LocalProcessing(1) \/ LocalProcessingAgain(1)

SpecLocal == InitLocal /\ [][NextLocal]_vars

\* SpecText: one upload of one or two plain-text files, by type or by
\* extension, of every content
TextFiles ==
    { MkFile(NameTxt, MimeNone, text, FALSE, <<>>) : text \in RecognizedTexts }
    \cup { MkFile(NameBare, MimeText, text, FALSE, <<>>) : text \in RecognizedTexts }

TextBatches ==
    { <<file>> : file \in TextFiles }
    \cup { <<first, second>> : first \in TextFiles, second \in TextFiles }

InitText == InitWith(FirstOf(TextBatches))

NextText == HandleFileUpload(1) \/ TextStep(1)

SpecText == InitText /\ [][NextText]_vars

\* SpecDocs: overlapping uploads of text files, all of the same name and one
\* of them empty, and of an image, and the remove button
FileNote == MkFile(NameTxt, MimeText, TextB, FALSE, <<>>)
FileEmptyNote == MkFile(NameTxt, MimeText, Empty, FALSE, <<>>)

DocBatches == { <<FileNote>>, <<FileEmptyNote, FileNote>>, <<FileImage>> }

InitDocs == InitWith(BothOf(DocBatches))

NextDocs ==
    \/ \E u \in Uploads : HandleFileUpload(u) \/ OcrStep(u) \/ TextStep(u)
    \/ \E j \in DOMAIN documents : RemoveDocument(documents[j].id)

SpecDocs == InitDocs /\ [][NextDocs]_vars

\* SpecCleanup: uploads of an image, which create engines, and up to
\* MaxCleanups calls of cleanup at any moment
InitCleanup == InitWith(BothOf({ <<FileImage>> }))

NextCleanup ==
    \/ \E u \in Uploads : HandleFileUpload(u) \/ OcrStep(u)
    \/ Cleanup

SpecCleanup == InitCleanup /\ [][NextCleanup]_vars

\* SpecEngine: an image and a scanned one-page PDF uploaded at any moment,
\* the background init and up to MaxCleanups calls of cleanup
FilePage == MkFile(NamePdf, MimePdf, Empty, TRUE, <<PageNone>>)

EngineTasks ==
    { [u \in Uploads |->
          IdleTask(u, IF u = 1 THEN <<FileImage>>
                      ELSE IF u = 2 THEN <<FilePage>> ELSE <<>>)] }

InitEngine == InitWith(EngineTasks)

NextEngine ==
    \/ \E u \in Uploads :
         \/ HandleFileUpload(u)
         \/ GetDocument(u) \/ GetPageFallback(u) \/ RenderResolves(u)
         \/ CreateWorkerResolves(u) \/ CreateWorkerRejects(u)
         \/ \E text \in RecognizedTexts : RecognizeResolves(u, text)
         \/ RecognizeRejects(u)
    \/ Background
    \/ Cleanup

SpecEngine == InitEngine /\ [][NextEngine]_vars

\* SpecLive: an upload of a batch of two files (plain text, an image and
\* a PDF), where every capability call that is awaited eventually settles:
\* each upload's pending call is weakly fair. Uploading and removing are
\* the user's and have no fairness.
LiveBatches ==
    { <<FileEmptyNote, FileNote>>, <<FileImage, FileScan>>, <<FileScan, FileNote>> }

InitLive == InitWith(FirstOf(LiveBatches))

Settles(u) == PdfStep(u) \/ OcrStep(u) \/ TextStep(u)

NextLive ==
    \/ \E u \in Uploads : HandleFileUpload(u) \/ PdfStep(u) \/ OcrStep(u) \/ TextStep(u)
    \/ \E j \in DOMAIN documents : RemoveDocument(documents[j].id)

SpecLive ==
    InitLive /\ [][NextLive]_vars /\ \A u \in Uploads : WF_vars(Settles(u))

---------------------------------------------------------------------------
(* The recognition engine: claims C1 to C3 *)

Engines == DOMAIN engine

Creating == { e \in Engines : engine[e] = "creating" }

Live == { e \in Engines : engine[e] = "live" }

\* C1: at most one engine creation (Tesseract.createWorker) is in flight at
\* any time, whoever calls OCRService.init (the background init, processImage,
\* the fallback of processPDF).
C1_OneCreationInFlight == Cardinality(Creating) <= 1

\* C2: once the unmount handler has run, cleanup has been called exactly once,
\* no engine that was created is left unreleased, and none is created later
\* (an engine created later would be live in some later state).
C2_ReleasedAfterTeardown ==
    ~mounted => (cleanupCalls = 1 /\ Live = {})

\* C3: a step that is not a call of cleanup leaves a set engine handle set to
\* the same engine, and that engine live.
C3_HandleStable ==
    [][ (worker # 0 /\ cleanupCalls' = cleanupCalls)
          => (worker' = worker /\ engine'[worker] = "live") ]_vars

---------------------------------------------------------------------------
(* processPDF: claims C4 to C7.  The outcomes are those of upload 1. *)

\* The outcomes of upload 1 that are PDF extractions, with their files
PdfOutcomes ==
    { j \in DOMAIN up[1].out : up[1].out[j].via = "processPDF" }

FileOf(j) == up[1].files[j]

HasNativePage(file) ==
    \E p \in DOMAIN file.pages : NativeAccepted(file.pages[p])

\* Failures of one page's rasterization or recognition
PageFaults == {"getContext", "render", "createWorker", "recognize"}

\* C4: a failure while rasterizing or recognizing one page does not abort the
\* document: when nothing but such failures happened and another page has
\* text, processPDF succeeds.
C4_PageFailureIsolated ==
    \A j \in PdfOutcomes :
        LET o == up[1].out[j]
        IN  (o.faults # {} /\ o.faults \subseteq PageFaults /\ HasNativePage(FileOf(j)))
                => o.ok

\* The recognized texts of an outcome that are not empty after trimming
RECURSIVE NonEmptyTexts(_)
NonEmptyTexts(ocr) ==
    IF ocr = <<>> THEN <<>>
    ELSE IF Trim(ocr[1][2]) # <<>>
         THEN <<Trim(ocr[1][2])>> \o NonEmptyTexts(Tail(ocr))
         ELSE NonEmptyTexts(Tail(ocr))

AllNativeShort(file) ==
    \A p \in DOMAIN file.pages : Len(pageText(file.pages[p])) <= NativeTextThreshold

\* C5: when every page's native text has at most 20 characters (and the
\* environment fails nowhere), every page is recognized, in page order, and
\* the text returned is the non-empty recognized texts joined by a blank line.
C5_FallbackJoin ==
    \A j \in PdfOutcomes :
        LET o == up[1].out[j]
            texts == NonEmptyTexts(o.ocr)
        IN  (AllNativeShort(FileOf(j)) /\ o.faults = {})
                => /\ Len(o.ocr) = Len(FileOf(j).pages)
                   /\ \A p \in DOMAIN o.ocr : o.ocr[p][1] = p
                   /\ texts # <<>> => (o.ok /\ o.result = Join(texts, <<"\n", "\n">>))

\* The kind of an error is that of its cause, the innermost message
ErrorKind(err) ==
    LET cause == err[Len(err)][1]
    IN  CASE cause \in {"No text could be extracted from this image",
                        "No text content could be extracted from this PDF",
                        "No text could be extracted"} -> "NoTextFound"
          [] cause = "Unsupported file type" -> "UnsupportedType"
          [] cause = "Failed to initialize OCR engine" -> "RecognitionInitFailed"
          [] cause = "NotReadableError" -> "DecodeError"
          [] OTHER -> "Unclassified"

StatusOf(docId) ==
    { documents[d].status : d \in { x \in DOMAIN documents : documents[x].id = docId } }

\* No page has an accepted native text, and every recognition that ran gave
\* an empty text
AllPagesEmpty(j) ==
    /\ ~HasNativePage(FileOf(j))
    /\ up[1].out[j].faults \subseteq {"getContext"}
    /\ NonEmptyTexts(up[1].out[j].ocr) = <<>>

IsPageProgress(values, m, n) ==
    /\ Len(values) = m
    /\ \A k \in 1..m : Same(values[k], <<k * 100, n>>)
    /\ \A k \in 1..(m - 1) : Leq(values[k], values[k + 1])

\* C7: the values processPDF delivers to its onProgress are k/N*100 for the
\* pages completed so far, one after each page and before the next page is
\* started, non-decreasing; on success all N were delivered, the last is 100,
\* and nothing else was delivered to that callback.
C7_PageProgress ==
    LET t == up[1]
    IN  /\ (t.via = "processPDF" /\ t.pc = "getDocument")
            => DeliveredTo(Callback(t)) = <<>>
        /\ (t.via = "processPDF" /\ t.pc \in {"getPage", "render", "createWorker", "recognize"})
            => IsPageProgress(DeliveredTo(Callback(t)), t.i - 1, t.totalPages)
        /\ \A j \in PdfOutcomes :
             LET values == DeliveredTo(<<"upload", 1, j>>)
                 n == Len(FileOf(j).pages)
             IN  /\ \E m \in 0..n : IsPageProgress(values, m, n)
                 /\ t.out[j].ok => (IsPageProgress(values, n, n)
                                     /\ Same(values[n], Pct(100)))

C7_Witness ==
    \E j \in PdfOutcomes :
        /\ up[1].out[j].ok
        /\ up[1].out[j].ocr # <<>>
        /\ j > 1
        /\ Len(DeliveredTo(<<"upload", 1, j>>)) = MaxPages
        /\ Len(DeliveredTo(<<"upload", 1, 1>>)) > 0

---------------------------------------------------------------------------
(* Progress, document status and dispatch: claims C8 to C10 *)

\* Upload u is extracting a file; run r is waiting for its request
Extracting(u) ==
    up[u].pc \in {"getDocument", "getPage", "render", "createWorker",
                  "recognize", "fileText"}

Formatting(r) == fmt[r].pc \in {"fetch", "json", "errorJson"}

\* No extraction and no formatting run is in flight, and no reset is pending
Quiet ==
    /\ \A u \in Uploads : ~Extracting(u)
    /\ \A r \in Runs : ~Formatting(r)
    /\ resetTimers = 0

\* C8: progress stays within [0,100]; a step during which an extraction or a
\* formatting run stays in flight does not decrease it; it is 0 once the
\* operations have ended and the resets they scheduled have run.
C8_ProgressMonotone ==
    [][ /\ Leq(Zero, progress') /\ Leq(progress', Pct(100))
        /\ \A u \in Uploads :
             (Extracting(u) /\ Extracting(u)' /\ up'[u].k = up[u].k)
                => Leq(progress, progress')
        /\ \A r \in Runs :
             (Formatting(r) /\ Formatting(r)') => Leq(progress, progress')
        /\ Quiet' => progress' = Zero
      ]_vars

\* C9: the status of a document only moves from processing to ready or to
\* error: a ready document never becomes error and an error document never
\* becomes ready (the code has no retry that resets one to processing).
C9_StatusForward ==
    [][ \A a \in DOMAIN documents : \A b \in DOMAIN documents' :
          documents[a].id = documents'[b].id
            => \/ documents'[b].status = documents[a].status
               \/ /\ documents[a].status = "processing"
                  /\ documents'[b].status \in {"ready", "error"}
      ]_vars

\* The dispatch policy, in its priority order
IsPdf(file) == file.type = MimePdf \/ fileExtension(file) = ExtPdf
IsImage(file) ==
    StartsWith(file.type, MimeImage) \/ fileExtension(file) \in ImageExtensions
IsPlain(file) == file.type = MimeText \/ fileExtension(file) = ExtTxt

Offending(file) == IF file.type # <<>> THEN file.type ELSE fileExtension(file)

\* C10: every (MIME type, extension) selects exactly one strategy in the
\* priority order PDF, image, plain text, or fails with UnsupportedType
\* carrying the type or else the extension; an unsupported file invokes no
\* extraction capability, a supported one only those of its strategy.
C10_Dispatch ==
    LET t == up[1]
    IN  t.k >= 1 =>
          LET file == t.files[t.k]
          IN  /\ IsPdf(file) => (t.via = "processPDF" /\ "read" \notin t.invoked)
              /\ (~IsPdf(file) /\ IsImage(file))
                    => (t.via = "processImage" /\ t.invoked \subseteq {"recognition"})
              /\ (~IsPdf(file) /\ ~IsImage(file) /\ IsPlain(file))
                    => (t.via = "text" /\ t.invoked \subseteq {"read"})
              /\ (~IsPdf(file) /\ ~IsImage(file) /\ ~IsPlain(file))
                    => /\ t.pc = "done"
                       /\ t.out[t.k].ok = FALSE
                       /\ t.out[t.k].result =
                             << <<"Unsupported file type", Offending(file)>> >>
                       /\ ErrorKind(t.out[t.k].result) = "UnsupportedType"
                       /\ t.out[t.k].invoked = {}
              /\ (t.pc = "done" /\ ~t.out[t.k].ok
                    /\ ErrorKind(t.out[t.k].result) = "UnsupportedType")
                    => (~IsPdf(file) /\ ~IsImage(file) /\ ~IsPlain(file))

\* a file declared image/png whose extension is pdf went to the PDF strategy
C10_Witness ==
    LET t == up[1]
    IN  /\ t.pc = "done"
        /\ t.files[1].type = MimePng
        /\ fileExtension(t.files[1]) = ExtPdf
        /\ t.out[1].via = "processPDF"
        /\ t.out[1].ok

---------------------------------------------------------------------------
(* The remote call: claims C11 to C13 and C16 *)

\* The kind of an error callProvider throws, by its message
FormatErrorKind(err) ==
    LET msg == err[1][1]
    IN  CASE msg = "Invalid provider selected" -> "InvalidProvider"
          [] msg = "API key required for" -> "MissingCredential"
          [] msg = "Request timeout - please try again" -> "Timeout"
          [] msg = "Model is loading. Please try again in about" -> "ModelLoading"
          [] msg \in {"API Error", "Hugging Face API Error"} -> "ProviderError"
          [] msg \in { body.error : body \in ErrorBodies } -> "ProviderError"
          [] OTHER -> "Unclassified"

\* C11: when the timeout elapses before a remote call has returned, whether
\* it waits for the response or for the body, the request is aborted and the
\* call fails with Timeout and no other error, after one request only.
C11_TimeoutAborts ==
    \A r \in Runs :
        fmt[r].expired =>
            /\ fmt[r].aborted
            /\ fmt[r].pc = "failed"
            /\ FormatErrorKind(fmt[r].error) = "Timeout"
            /\ fmt[r].requests = 1

\* The provider of the settings is in the table and requires a key
RequiresKey(settings) ==
    /\ settings.provider \in DOMAIN Providers
    /\ settings.provider # "local"
    /\ Providers[settings.provider]

\* C12: a call for a provider that requires a key, with an empty key, fails
\* with MissingCredential; no request was sent and its onProgress was never
\* called.
C12_MissingCredential ==
    \A r \in Runs :
        (fmt[r].pc # "idle" /\ RequiresKey(fmt[r].settings)
            /\ fmt[r].settings.apiKey = "")
        => /\ fmt[r].pc = "failed"
           /\ fmt[r].error = ApiKeyRequired(fmt[r].settings.provider)
           /\ FormatErrorKind(fmt[r].error) = "MissingCredential"
           /\ fmt[r].requests = 0
           /\ fmt[r].timer = "none"
           /\ DeliveredTo(FormatCallback(r)) = <<>>

\* both shapes were called without a key, and a call with a key was sent
C12_Witness ==
    /\ fmt[1].pc = "failed"
    /\ fmt[1].settings = [provider |-> "huggingface", apiKey |-> ""]
    /\ fmt[2].pc = "fetch"
    /\ fmt[2].settings = [provider |-> "huggingface", apiKey |-> "key"]

FormatKinds ==
    {"InvalidProvider", "MissingCredential", "Timeout", "ModelLoading",
     "ProviderError"}

ExtractionKinds ==
    {"UnsupportedType", "RecognitionInitFailed", "NoTextFound", "DecodeError"}

\* C13: every failed formatting call ends with an error of one of the five
\* formatting kinds, and every failed extraction with one of the four
\* extraction kinds.
C13_Classified ==
    /\ \A r \in Runs :
         fmt[r].pc = "failed" => FormatErrorKind(fmt[r].error) \in FormatKinds
    /\ \A u \in Uploads : \A j \in DOMAIN up[u].out :
         ~up[u].out[j].ok => ErrorKind(up[u].out[j].result) \in ExtractionKinds

IsLocal(settings) == settings.provider \in {"", "local"}

\* Resolution fails: no such provider, or a key is required and missing
Unresolved(settings) ==
    /\ ~IsLocal(settings)
    /\ \/ settings.provider \notin DOMAIN Providers
       \/ Providers[settings.provider] /\ settings.apiKey = ""

\* C16: a call sends no request when the provider is empty or local (and
\* then returns a result) or when resolution fails, and exactly one request
\* otherwise, whatever its outcome.
C16_OneRequest ==
    \A r \in Runs :
        LET run == fmt[r]
        IN  run.pc # "idle" =>
              /\ IsLocal(run.settings)
                    => (run.requests = 0 /\ run.pc = "done" /\ run.error = <<>>)
              /\ Unresolved(run.settings)
                    => (run.requests = 0 /\ run.pc = "failed")
              /\ (~IsLocal(run.settings) /\ ~Unresolved(run.settings))
                    => run.requests = 1

\* a call ended by a transport failure, one by a timeout, one by a non-2xx
\* response and a local one: each outcome after its single request
C16_Witness ==
    /\ \E r \in Runs : fmt[r].pc = "failed" /\ fmt[r].error = FailedToFetch
                        /\ fmt[r].requests = 1
    /\ \E r \in Runs : \/ fmt[r].pc = "failed" /\ fmt[r].error = RequestTimeout
                       \/ fmt[r].pc = "failed" /\ fmt[r].status = 503
                       \/ fmt[r].pc = "done" /\ fmt[r].status = 200
                       \/ fmt[r].pc = "done" /\ IsLocal(fmt[r].settings)

---------------------------------------------------------------------------
(* The local transform: claims C14 and C15 *)

\* C14: localProcessing is idempotent in every format: applied to its own
\* output with the same format it returns that output.
C14_LocalIdempotent ==
    \A r \in Runs : fmt[r].pc = "twice" => fmt[r].again = fmt[r].output

\* <ul> with the items a and b, then <p>Second para</p>
ListThenParagraphHtml ==
    <<"<", "u", "l", ">", "\n",
      " ", " ", "<", "l", "i", ">", "a", "<", "/", "l", "i", ">", "\n",
      " ", " ", "<", "l", "i", ">", "b", "<", "/", "l", "i", ">", "\n",
      "<", "/", "u", "l", ">", "\n",
      "<", "p", ">", "S", "e", "c", "o", "n", "d", " ", "p", "a", "r", "a",
      "<", "/", "p", ">", "\n">>

\* C15: in format html the blocks between blank lines are rendered in
\* order, a list block as one <ul> and any other block as one <p>: the list
\* "- a", "- b" followed after a blank line by "Second para" gives the <ul>
\* of a and b and then the separate <p>Second para</p>.
C15_HtmlBlocks ==
    \A r \in Runs :
        (fmt[r].pc \in {"once", "twice"} /\ fmt[r].format = "html"
            /\ fmt[r].text = ListThenParagraph)
        => fmt[r].output = ListThenParagraphHtml

---------------------------------------------------------------------------
(* Plain text files, the document list, cleanup and empty pages: claims    *)
(* C17 to C20                                                              *)

\* The document created for outcome o, when it is still in the list
DocsOf(o) ==
    { documents[d] : d \in { x \in DOMAIN documents : documents[x].id = o.docId } }

\* C17: a plain-text file whose bytes decode is extracted successfully with
\* its content verbatim, whatever the content, and its document becomes
\* ready with that text; the strategy fails only with DecodeError.
C17_PlainRead ==
    \A j \in DOMAIN up[1].out :
        LET o == up[1].out[j]
        IN  o.via = "text" =>
              /\ o.faults = {} => /\ o.ok
                                  /\ o.result = up[1].files[j].text
                                  /\ \A d \in DocsOf(o) :
                                       /\ d.status = "ready"
                                       /\ d.extractedText = up[1].files[j].text
              /\ ~o.ok => ErrorKind(o.result) = "DecodeError"

\* C18: a ready document has a text that is not empty, a processing document
\* has an empty text, and a document leaves the list only by its remove button.
C18_DocumentText ==
    /\ [](\A d \in DOMAIN documents :
            /\ documents[d].status = "ready" => documents[d].extractedText # <<>>
            /\ documents[d].status = "processing" => documents[d].extractedText = <<>>)
    /\ [][ \A a \in DOMAIN documents :
             (\A b \in DOMAIN documents' : documents'[b].id # documents[a].id)
                => RemoveDocument(documents[a].id)
         ]_vars

\* a document was removed while its extraction was running, another is ready
C18_Witness ==
    /\ \E u \in Uploads :
         /\ up[u].pc \in {"fileText", "createWorker", "recognize"}
         /\ \A d \in DOMAIN documents : documents[d].id # up[u].docId
    /\ \E d \in DOMAIN documents : documents[d].status = "ready"

\* No engine was ever initialized
NeverInitialized == \A e \in Engines : engine[e] \in {"creating", "failed"}

\* C19: a call of cleanup when no engine was ever initialized changes
\* nothing; after a call of cleanup a second call changes nothing; no engine
\* is released twice.
C19_CleanupIdempotent ==
    [][ cleanupCalls' # cleanupCalls =>
          /\ NeverInitialized
                => UNCHANGED <<worker, engine, logger, documents, progress, nextId,
                               delivered, up, bg, fmt, processing, resetTimers>>
          /\ cleanup(G)' = G'
          /\ \A e \in DOMAIN engine' : engine'[e] # "terminated twice"
      ]_vars

\* cleanup was called MaxCleanups times: before any engine, on a live engine
\* and once more, and an engine created later is live
C19_Witness ==
    /\ cleanupCalls = MaxCleanups
    /\ Len(engine) = 2
    /\ engine[1] = "terminated"
    /\ engine[2] = "live"

\* C20: a page that yields no text, natively or recognized, is not an error:
\* when nothing fails and another page yields text, processPDF succeeds.
C20_EmptyPageSkipped ==
    \A j \in PdfOutcomes :
        LET o == up[1].out[j]
        IN  (/\ o.faults = {}
             /\ \E p \in DOMAIN o.ocr : Trim(o.ocr[p][2]) = <<>>
             /\ HasNativePage(FileOf(j)) \/ NonEmptyTexts(o.ocr) # <<>>)
            => o.ok

---------------------------------------------------------------------------
(* The native text threshold: claim C21 *)

\* The pages of an outcome that were recognized
RecognizedPages(o) == { o.ocr[x][1] : x \in DOMAIN o.ocr }

\* Every page of every PDF outcome took the path that Long(items) tells:
\* accepted natively, without rasterization or recognition, when Long, and
\* never so otherwise; a PDF that succeeded without a fault rasterized
\* exactly its other pages
PathsFollow(Long(_)) ==
    \A j \in PdfOutcomes :
        LET o == up[1].out[j]
            pages == FileOf(j).pages
        IN  \A p \in DOMAIN pages :
              /\ p \in o.native
                    => (Long(pages[p]) /\ p \notin o.rendered
                        /\ p \notin RecognizedPages(o))
              /\ p \in o.rendered => ~Long(pages[p])
              /\ (o.ok /\ o.faults = {})
                    => /\ Long(pages[p]) => p \in o.native
                       /\ ~Long(pages[p]) => p \in o.rendered

LongUntrimmed(items) == Len(pageText(items)) > NativeTextThreshold
LongTrimmed(items) == Len(Trim(pageText(items))) > NativeTextThreshold

\* C21, as stated: a page's native text is accepted, with no rasterization
\* or recognition, exactly when the fragments joined by single spaces have
\* more than 20 characters.
C21_NativeThreshold == PathsFollow(LongUntrimmed)

\* C21, amended: ... exactly when the joined fragments have more than 20
\* characters after leading and trailing white space is removed; the text
\* accepted is the untrimmed one.
C21_NativeThresholdTrimmed ==
    /\ PathsFollow(LongTrimmed)
    /\ \A u \in Uploads :
         (up[u].pc \in {"getPage", "render"} /\ up[u].native # {})
            => \E x \in DOMAIN up[u].textPages :
                 \E p \in up[u].native :
                    up[u].textPages[x] = pageText(up[u].files[up[u].k].pages[p])

\* a PDF succeeded whose first page has 21 characters of which 19 remain
\* after trim, and was rasterized, and whose second page was accepted
C21_Witness ==
    \E j \in PdfOutcomes :
        /\ up[1].out[j].ok
        /\ FileOf(j).pages = <<PagePadded, PageText>>
        /\ up[1].out[j].rendered = {1}
        /\ up[1].out[j].native = {2}

---------------------------------------------------------------------------
(* The engine's progress and the callback of the call: claim C22 *)

\* Upload u's recognition, started by a processImage call that was given a
\* callback, is reported on by the engine in this step
Reports(u) ==
    /\ up[u].pc = "recognize" /\ up'[u].pc = "recognize"
    /\ up[u].via = "processImage"
    /\ up'[u].k = up[u].k
    /\ up'[u].ticks > up[u].ticks

DeliveredAfter(cb) == IF cb \in DOMAIN delivered' THEN delivered'[cb] ELSE <<>>

\* C22: every fractional progress the engine reports for a processImage
\* call that supplied a callback is delivered, scaled to 0..100, to that
\* call's callback and to no other callback, whichever call initialised the
\* engine.
C22_ProgressToOwnCallback ==
    [][\A u \in Uploads :
          Reports(u) =>
             LET m == EngineFractions[up'[u].ticks]
             IN  /\ DeliveredAfter(Callback(up[u]))
                      = Append(DeliveredTo(Callback(up[u])), <<m[1] * 100, m[2]>>)
                 /\ \A cb \in (DOMAIN delivered \cup DOMAIN delivered')
                               \ {Callback(up[u])} :
                        DeliveredAfter(cb) = DeliveredTo(cb)]_vars

---------------------------------------------------------------------------
(* Progress of a remote call: claim C23 *)

\* C23: a remote call delivers 10 before dispatch and 90 after a successful
\* decode and nothing else: <<10>> while in flight and when it failed after
\* dispatch, <<10, 90>> when it succeeded, nothing when no request was sent.
C23_TenThenNinety ==
    \A r \in Runs :
        LET log == DeliveredTo(FormatCallback(r))
        IN  /\ fmt[r].requests = 0 => log = <<>>
            /\ Formatting(r) => log = <<Pct(10)>>
            /\ (fmt[r].pc = "done" /\ fmt[r].requests > 0)
                  => log = <<Pct(10), Pct(90)>>
            /\ (fmt[r].pc = "failed" /\ fmt[r].requests > 0)
                  => log = <<Pct(10)>>

---------------------------------------------------------------------------
(* The error of a non-2xx response: claim C24 *)

\* run r ended with the error of a non-2xx response
HttpFailed(r) ==
    /\ fmt[r].pc = "failed"
    /\ fmt[r].status # 0
    /\ ~ResponseOk(fmt[r].status)

\* The status an error carries (0: none), and its message: the errors of a
\* non-2xx response are one frame, either the message alone or the prefix,
\* the status and the text that follows the colon
StatusIn(err) == IF Len(err[1]) = 3 THEN err[1][2] ELSE 0
MessageIn(err) == IF Len(err[1]) = 3 THEN err[1][3] ELSE err[1][1]

\* C24: every non-2xx response, in either shape, fails with an error that
\* carries the HTTP status and a message; the message is the decoded
\* structured error message when the body decodes and the raw body text
\* when it does not.
C24_StatusAndMessage ==
    \A r \in Runs :
        HttpFailed(r) =>
            /\ StatusIn(fmt[r].error) = fmt[r].status
            /\ MessageIn(fmt[r].error) = IF fmt[r].body.json
                                         THEN fmt[r].body.error
                                         ELSE fmt[r].body.raw

---------------------------------------------------------------------------
(* Block structure of the local transformation: claim C25 *)

\* The lines of a text after \r\n became \n
LinesOf(text) == Split(ReplaceCrLf(text, 1), <<"\n">>, 1)

\* A line with its runs of spaces and tabs collapsed, trimmed
CleanLine(line) == Trim(CollapseSpaces(line, 1))

\* The non-blank lines from p on, cleaned, joined to `out`: by one line
\* break, or by one blank line where blank lines stood between them (gap)
RECURSIVE BlockStructure(_, _, _, _)
BlockStructure(lines, p, gap, out) ==
    IF p > Len(lines) THEN out
    ELSE LET line == CleanLine(lines[p])
         IN  IF line = <<>> THEN BlockStructure(lines, p + 1, out # <<>>, out)
             ELSE BlockStructure(lines, p + 1, FALSE,
                     IF out = <<>> THEN line
                     ELSE out \o (IF gap THEN <<"\n", "\n">> ELSE <<"\n">>) \o line)

\* no carriage return is left after \r\n became \n
OnlyNewlines(text) == \A x \in DOMAIN ReplaceCrLf(text, 1) : ReplaceCrLf(text, 1)[x] # "\r"

\* C25: in format text the local transformation keeps the blocks: every run
\* of blank lines between two non-blank lines becomes one blank line, runs
\* of spaces and tabs one space, every line is trimmed, and two non-blank
\* lines are neither merged nor lose the blank line between them.
C25_BlocksKept ==
    \A r \in Runs :
        (fmt[r].pc \in {"once", "twice"} /\ fmt[r].format = "text"
            /\ OnlyNewlines(fmt[r].text))
          => fmt[r].output = BlockStructure(LinesOf(fmt[r].text), 1, FALSE, <<>>)

---------------------------------------------------------------------------
(* A failed extraction and the other documents: claim C26 *)

\* the extraction of upload u's current file fails in this step
Fails(u) ==
    /\ Len(up'[u].out) = Len(up[u].out) + 1
    /\ ~up'[u].out[Len(up'[u].out)].ok

\* C26: when the extraction of a file fails, only the document of that
\* submission changes, to status error; status and text of every other
\* document, one of the same file name included, stay as they were.
C26_OnlyOwnDocument ==
    [][ \A u \in Uploads :
          Fails(u) =>
            \A a \in DOMAIN documents : \A b \in DOMAIN documents' :
                documents[a].id = documents'[b].id
                  => IF documents[a].id = up[u].docId
                     THEN documents'[b].status = "error"
                     ELSE /\ documents'[b].status = documents[a].status
                          /\ documents'[b].extractedText = documents[a].extractedText
      ]_vars

---------------------------------------------------------------------------
(* One formatting call at a time: claim C27 *)

\* C27: at most one formatting call started by processText is in flight,
\* and the processing flag is true exactly while one is, also when
\* processText is entered by Ctrl+Enter.
C27_OneFormattingCall ==
    /\ \A r1 \in Runs : \A r2 \in Runs :
          (Formatting(r1) /\ Formatting(r2)) => r1 = r2
    /\ processing <=> \E r \in Runs : Formatting(r)

---------------------------------------------------------------------------
(* Every file of a batch is settled: claim C28 *)

\* upload u's handler has gone through all its files, and the document of
\* each of them is ready or error unless it was removed
BatchSettled(u) ==
    /\ up[u].pc = "done"
    /\ Len(up[u].out) = Len(up[u].files)
    /\ \A j \in DOMAIN up[u].out : \A d \in DOMAIN documents :
          documents[d].id = up[u].out[j].docId
             => documents[d].status \in {"ready", "error"}

\* C28: when every capability call eventually returns or fails, every file
\* of a batch handed to handleFileUpload eventually has its document ready
\* or error (unless it was removed); a file that fails does not keep the
\* later files of the batch from being extracted.
C28_BatchSettles ==
    \A u \in Uploads : (up[u].pc # "idle") ~> BatchSettled(u)

\* a batch whose first file failed and whose second file is ready
C28_Witness ==
    \E u \in Uploads :
        /\ BatchSettled(u)
        /\ Len(up[u].out) = 2
        /\ ~up[u].out[1].ok
        /\ up[u].out[2].ok
        /\ \E d \in DOMAIN documents :
              /\ documents[d].id = up[u].out[2].docId
              /\ documents[d].status = "ready"

---------------------------------------------------------------------------
(* Recognition and the life of the engine: claim C29 *)

\* worker.recognize is called for upload u in this step
Started(u) ==
    /\ up'[u].pc = "recognize"
    /\ up[u].pc # "recognize" \/ up'[u].k # up[u].k \/ up'[u].i # up[u].i

\* processImage is called for upload u at the beginning of this step: for
\* the first file of the batch, or for a page that was rendered
CallsProcessImage(u) ==
    \/ /\ up[u].pc = "idle"
       /\ up'[u].k = 1
       /\ up'[u].via = "processImage"
    \/ /\ up[u].pc = "render"
       /\ up'[u].pc # "render"
       /\ up'[u].k = up[u].k
       /\ up'[u].faults = up[u].faults

\* C29: recognition is only ever started on an engine that was created and
\* is not released, in every interleaving of init, processImage, processPDF
\* and cleanup; a failed initialization leaves the handle unset, and a
\* processImage call that finds it unset initializes again.
C29_RecognitionOnLiveEngine ==
    /\ [](worker # 0 => engine[worker] = "live")
    /\ [][ /\ \A u \in Uploads :
                Started(u) => /\ up'[u].eng = worker'
                              /\ engine'[up'[u].eng] = "live"
           /\ \A e \in DOMAIN engine :
                (engine[e] = "creating" /\ engine'[e] = "failed") => worker' = 0
           /\ \A u \in Uploads :
                (CallsProcessImage(u) /\ worker = 0)
                   => /\ up'[u].pc = "createWorker"
                      /\ up'[u].eng = Len(engine')
                      /\ Len(engine') = Len(engine) + 1
                      /\ engine'[up'[u].eng] = "creating"
         ]_vars

\* a recognition runs on a live engine that was created after one engine
\* failed to initialize and another was released
C29_Witness ==
    /\ \E e \in DOMAIN engine : engine[e] = "failed"
    /\ \E e \in DOMAIN engine : engine[e] = "terminated"
    /\ \E u \in Uploads :
          /\ up[u].pc = "recognize"
          /\ up[u].eng = worker
          /\ engine[worker] = "live"
          /\ \E e \in DOMAIN engine : e < worker /\ engine[e] = "failed"

=============================================================================
